---- MODULE Spec2Model ----
(***************************************************************************)
(* Dual-timeframe moving-average scanner (src/services/binanceService.ts,  *)
(* src/App.tsx): candle retrieval with ordered fallbacks, the indicator    *)
(* library, the per-timeframe setup evaluation, the timeframe arbiter and  *)
(* the sequential batch pass of the application.                           *)
(*                                                                         *)
(* Numbers.  A JavaScript number is modelled as a fixed-point integer:     *)
(* prices, averages, ATR, stop-loss and take-profit count thousandths of   *)
(* a quote unit (100.5 is 100500), the two percentage scores count         *)
(* 1/ScoreScale of a percent.  A division rounds to the nearest unit.      *)
(* NaN is a distinguished value that every arithmetic operator propagates  *)
(* and every comparison rejects, as IEEE-754 does.  Infinity and -Infinity *)
(* are two more, above and below every finite number, that arithmetic      *)
(* absorbs as IEEE-754 does.                                               *)
(***************************************************************************)
EXTENDS Integers, Sequences, FiniteSets, TLC

\* ------------------------------------------------------------ numbers

\* The value parseFloat yields for a field that does not start with a number.
NaN == -2000000000

\* Resolution of densityScore and priceDeviation: units per percent.
ScoreScale == 1000

IsNaN(x) == x = NaN

\* The value parseFloat yields for "Infinity" and for a numeral past the range of
\* a double, and its negation.
Infinity == 1000000000

NegInfinity == -1000000000

IsInfinite(x) == x = Infinity \/ x = NegInfinity

\* -x
FNeg(x) ==
    IF IsNaN(x) THEN NaN
    ELSE IF x = Infinity THEN NegInfinity
    ELSE IF x = NegInfinity THEN Infinity
    ELSE -x

\* a / b for a >= 0, b > 0, rounded to the nearest unit.
RoundDiv(a, b) == (a \div b) + (IF 2 * (a % b) >= b THEN 1 ELSE 0)

\* a + b: Infinity + -Infinity is NaN, and an infinite operand absorbs a finite one.
FAdd(a, b) ==
    IF IsNaN(a) \/ IsNaN(b) THEN NaN
    ELSE IF IsInfinite(a) THEN (IF IsInfinite(b) /\ a # b THEN NaN ELSE a)
    ELSE IF IsInfinite(b) THEN b
    ELSE a + b

FSub(a, b) == FAdd(a, FNeg(b))

\* a * n for an integer literal n >= 0 of the code: Infinity * 0 is NaN.
FScale(a, n) ==
    IF IsNaN(a) THEN NaN
    ELSE IF IsInfinite(a) THEN (IF n = 0 THEN NaN ELSE a)
    ELSE a * n

\* a / n for a positive integer n (a period).
FDivInt(a, n) ==
    IF IsNaN(a) THEN NaN
    ELSE IF IsInfinite(a) THEN a
    ELSE IF a >= 0 THEN RoundDiv(a, n) ELSE -RoundDiv(-a, n)

FAbs(a) == IF IsNaN(a) THEN NaN ELSE IF IsInfinite(a) THEN Infinity ELSE IF a < 0 THEN -a ELSE a

\* Comparisons: false as soon as an operand is NaN; Infinity and -Infinity compare
\* as the largest and the smallest number.
FLt(a, b) == ~IsNaN(a) /\ ~IsNaN(b) /\ a < b

FGt(a, b) == ~IsNaN(a) /\ ~IsNaN(b) /\ a > b

FGe(a, b) == ~IsNaN(a) /\ ~IsNaN(b) /\ a >= b

\* Math.max / Math.min of two numbers: NaN if either is NaN.
FMax2(a, b) == IF IsNaN(a) \/ IsNaN(b) THEN NaN ELSE IF a >= b THEN a ELSE b

FMin2(a, b) == IF IsNaN(a) \/ IsNaN(b) THEN NaN ELSE IF a <= b THEN a ELSE b

RECURSIVE MathMax(_)
MathMax(s) == IF Len(s) = 1 THEN s[1] ELSE FMax2(s[1], MathMax(Tail(s)))

RECURSIVE MathMin(_)
MathMin(s) == IF Len(s) = 1 THEN s[1] ELSE FMin2(s[1], MathMin(Tail(s)))

\* !x of JavaScript on a number: true for 0 and for NaN.
Falsy(x) == IsNaN(x) \/ x = 0

\* a / b without the factor 100: the ratio where the percentage is meant.
PercentAsFraction(a, b) ==
    IF IsNaN(a) \/ IsNaN(b) \/ b < 0 \/ a < 0 THEN NaN
    ELSE IF b = 0 THEN (IF a = 0 THEN NaN ELSE Infinity)
    ELSE IF IsInfinite(a) THEN (IF IsInfinite(b) THEN NaN ELSE Infinity)
    ELSE IF IsInfinite(b) THEN 0
    ELSE RoundDiv(a * ScoreScale, b)

\* (a / b) * 100 as a percentage in 1/ScoreScale of a percent, a >= 0, b >= 0.
Percent(a, b) ==
    IF IsNaN(a) \/ IsNaN(b) \/ b < 0 \/ a < 0 THEN NaN
    ELSE IF b = 0 THEN (IF a = 0 THEN NaN ELSE Infinity)
    ELSE IF IsInfinite(a) THEN (IF IsInfinite(b) THEN NaN ELSE Infinity)
    ELSE IF IsInfinite(b) THEN 0
    ELSE RoundDiv(a * 100 * ScoreScale, b)

\* ------------------------------------------------------------ candles

\* A field of a raw row that is not a numeric string (undefined, garbage).
Garbage == -1

\* parseFloat of a Kline field: the number a numeric string denotes ("Infinity"
\* included), NaN otherwise.
parseFloat(s) == IF s = Garbage THEN NaN ELSE s

Null == [null |-> TRUE]

\* An element of a JSON array: an array of cells, a number, or null.
ArrayElem(cells) == [kind |-> "array", cells |-> cells]

NullElem == [kind |-> "null", cells |-> << >>]

NumberElem == [kind |-> "number", cells |-> << >>]

\* d[k] (0-based k) of an element: the cell, or undefined where there is none.
Cell(d, k) ==
    IF d.kind = "array" /\ k + 1 <= Len(d.cells) THEN d.cells[k + 1] ELSE Garbage

\* mapData raises a TypeError when it indexes a null element.
mapDataThrows(data) == \E n \in 1..Len(data) : data[n].kind = "null"

\* mapData: raw rows [openTime, open, high, low, close, volume, closeTime, ...]
\* to Kline records.
mapData(data) ==
    [n \in 1..Len(data) |->
        [openTime  |-> Cell(data[n], 0),
         open      |-> Cell(data[n], 1),
         high      |-> Cell(data[n], 2),
         low       |-> Cell(data[n], 3),
         close     |-> Cell(data[n], 4),
         volume    |-> Cell(data[n], 5),
         closeTime |-> Cell(data[n], 6)]]

\* --------------------------------------------------- indicator library

\* Sum of parseFloat(klines[j].close) for j in lo..hi (1-based).  The range is
\* halved at each level, which keeps the evaluation shallow.
RECURSIVE CloseSum(_, _, _)
CloseSum(klines, lo, hi) ==
    IF hi < lo THEN 0
    ELSE IF hi = lo THEN FAdd(0, parseFloat(klines[lo].close))
    ELSE LET mid == (lo + hi) \div 2
         IN  FAdd(CloseSum(klines, lo, mid), CloseSum(klines, mid + 1, hi))

\* calculateSMA without the padding loop: the means alone, the first at index 0.
calculateSMAUnpadded(klines, period) ==
    IF Len(klines) < period THEN << >>
    ELSE [n \in 1..(Len(klines) - period + 1) |->
            FDivInt(CloseSum(klines, n, n + period - 1), period)]

\* calculateSMA.  Index n of the result is index n-1 of the code's array.
calculateSMA(klines, period) ==
    IF Len(klines) < period THEN << >>
    ELSE [n \in 1..Len(klines) |->
            IF n < period THEN 0
            ELSE FDivInt(CloseSum(klines, n - period + 1, n), period)]

\* One step of the EMA recurrence: close * k + previousEma * (1 - k), k = 2/(period+1).
EmaStep(close, previousEma, period) ==
    FDivInt(FAdd(FScale(close, 2), FScale(previousEma, period - 1)), period + 1)

\* The recurrence applied to candles lo..hi in turn, starting from previousEma.
\* The range is halved at each level; the candles are still taken in order, the
\* first half being finished before the second starts (a NaN stays a NaN through
\* every later step, so the second half need not run on it).
RECURSIVE EmaFold(_, _, _, _, _)
EmaFold(klines, period, lo, hi, previousEma) ==
    IF hi < lo THEN previousEma
    ELSE IF hi = lo THEN EmaStep(parseFloat(klines[lo].close), previousEma, period)
    ELSE LET mid  == (lo + hi) \div 2
             left == EmaFold(klines, period, lo, mid, previousEma)
         IN  IF IsNaN(left) THEN NaN ELSE EmaFold(klines, period, mid + 1, hi, left)

\* calculateEMA.  Index n of the result is index n-1 of the code's array.
calculateEMA(klines, period) ==
    IF Len(klines) < period THEN << >>
    ELSE LET seed == FDivInt(CloseSum(klines, 1, period), period)
         IN  [n \in 1..Len(klines) |->
                IF n < period THEN 0
                ELSE EmaFold(klines, period, period + 1, n, seed)]

\* The true range of candle n (n >= 2).
TrueRange(klines, n) ==
    LET high      == parseFloat(klines[n].high)
        low       == parseFloat(klines[n].low)
        prevClose == parseFloat(klines[n - 1].close)
    IN  FMax2(FSub(high, low),
              FMax2(FAbs(FSub(high, prevClose)), FAbs(FSub(low, prevClose))))

RECURSIVE TrSum(_, _, _)
TrSum(klines, lo, hi) ==
    IF hi < lo THEN 0
    ELSE FAdd(TrSum(klines, lo, hi - 1), TrueRange(klines, hi))

\* calculateATR.
calculateATR(klines, period) ==
    IF Len(klines) < period + 1 THEN 0
    ELSE FDivInt(TrSum(klines, Len(klines) - period + 1, Len(klines)), period)

\* ------------------------------------------------------ setup evaluator

\* analyzeInterval returns null below this many candles.
MinKlines == 150

\* The ATR period analyzeInterval passes to calculateATR.
AtrPeriod == 14

\* Periods of the six lines.
Period20 == 20

Period60 == 60

Period120 == 120

\* DENSE_THRESHOLD = 2.0 and PRICE_DEV_THRESHOLD = 3.0, in percent.
DENSE_THRESHOLD == 2 * ScoreScale

PRICE_DEV_THRESHOLD == 3 * ScoreScale

\* Object.values(mas), in the order the object literal lists the six lines.
ObjectValues(mas) ==
    <<mas.ma20, mas.ma60, mas.ma120, mas.ema20, mas.ema60, mas.ema120>>

RECURSIVE SumValues(_)
SumValues(s) == IF s = << >> THEN 0 ELSE FAdd(s[1], SumValues(Tail(s)))

\* The last element of an indicator array (undefined, hence NaN in arithmetic,
\* when the array is empty).
LastOf(arr) == IF Len(arr) = 0 THEN NaN ELSE arr[Len(arr)]

isBullishAlignment(mas) == FGt(mas.ma20, mas.ma60) /\ FGt(mas.ma60, mas.ma120)

isBearishAlignment(mas) == FLt(mas.ma20, mas.ma60) /\ FLt(mas.ma60, mas.ma120)

\* isDense = densityScore < DENSE_THRESHOLD && priceDeviation < PRICE_DEV_THRESHOLD
IsDense(densityScore, priceDeviation) ==
    FLt(densityScore, DENSE_THRESHOLD) /\ FLt(priceDeviation, PRICE_DEV_THRESHOLD)

\* Classify with the trend branches tried before the density branch.
ClassifyTrendFirst(mas, currentPrice, maxVal, minVal, densityScore, priceDeviation) ==
    IF isBullishAlignment(mas) /\ FGt(currentPrice, maxVal)
      THEN [signal |-> "Long", reason |-> "bullish"]
    ELSE IF isBearishAlignment(mas) /\ FLt(currentPrice, minVal)
      THEN [signal |-> "Short", reason |-> "bearish"]
    ELSE IF IsDense(densityScore, priceDeviation)
      THEN [signal |-> "Watch", reason |-> "dense"]
    ELSE IF FLt(densityScore, DENSE_THRESHOLD) /\ FGe(priceDeviation, PRICE_DEV_THRESHOLD)
      THEN [signal |-> "Wait", reason |-> "ranAway"]
    ELSE [signal |-> "Wait", reason |-> "diverging"]

\* The if / else-if chain that sets signal and reason.  The reason is kept as the
\* name of the branch taken; the figures the code formats into it are left out.
Classify(mas, currentPrice, maxVal, minVal, densityScore, priceDeviation) ==
    IF IsDense(densityScore, priceDeviation)
      THEN [signal |-> "Watch", reason |-> "dense"]
    ELSE IF isBullishAlignment(mas) /\ FGt(currentPrice, maxVal)
      THEN [signal |-> "Long", reason |-> "bullish"]
    ELSE IF isBearishAlignment(mas) /\ FLt(currentPrice, minVal)
      THEN [signal |-> "Short", reason |-> "bearish"]
    ELSE IF FLt(densityScore, DENSE_THRESHOLD) /\ FGe(priceDeviation, PRICE_DEV_THRESHOLD)
      THEN [signal |-> "Wait", reason |-> "ranAway"]
    ELSE [signal |-> "Wait", reason |-> "diverging"]

\* The plan with the stop put on the far side of the lines: above the highest
\* for Long and Watch, below the lowest for Short and Wait.
TradePlanStopAcrossLines(signal, currentPrice, maxVal, minVal, atr) ==
    LET slBuffer == FScale(atr, 2)
    IN  IF signal = "Long" \/ signal = "Watch"
          THEN LET stopLoss == FAdd(maxVal, slBuffer)
               IN  [stopLoss   |-> stopLoss,
                    takeProfit |-> FAdd(currentPrice,
                                        FScale(FSub(currentPrice, stopLoss), 2))]
          ELSE LET stopLoss == FSub(minVal, slBuffer)
               IN  [stopLoss   |-> stopLoss,
                    takeProfit |-> FSub(currentPrice,
                                        FScale(FSub(stopLoss, currentPrice), 2))]

\* The plan with only Short on the bearish side: Wait planned like Long and Watch.
TradePlanWaitLikeLong(signal, currentPrice, maxVal, minVal, atr) ==
    LET slBuffer == FScale(atr, 2)
    IN  IF signal # "Short"
          THEN LET stopLoss == FSub(minVal, slBuffer)
               IN  [stopLoss   |-> stopLoss,
                    takeProfit |-> FAdd(currentPrice,
                                        FScale(FSub(currentPrice, stopLoss), 2))]
          ELSE LET stopLoss == FAdd(maxVal, slBuffer)
               IN  [stopLoss   |-> stopLoss,
                    takeProfit |-> FSub(currentPrice,
                                        FScale(FSub(stopLoss, currentPrice), 2))]

\* Stop-loss and take-profit from the signal.
TradePlan(signal, currentPrice, maxVal, minVal, atr) ==
    LET slBuffer == FScale(atr, 2)
    IN  IF signal = "Long" \/ signal = "Watch"
          THEN LET stopLoss == FSub(minVal, slBuffer)
               IN  [stopLoss   |-> stopLoss,
                    takeProfit |-> FAdd(currentPrice,
                                        FScale(FSub(currentPrice, stopLoss), 2))]
          ELSE LET stopLoss == FAdd(maxVal, slBuffer)
               IN  [stopLoss   |-> stopLoss,
                    takeProfit |-> FSub(currentPrice,
                                        FScale(FSub(stopLoss, currentPrice), 2))]

\* analyzeInterval from the validity check of the averages to the returned setup.
EvaluateSetup(symbol, interval, currentPrice, atr, mas) ==
    IF Falsy(mas.ma120) \/ Falsy(mas.ema120) THEN Null
    ELSE LET allValues      == ObjectValues(mas)
             maxVal         == MathMax(allValues)
             minVal         == MathMin(allValues)
             spread         == FSub(maxVal, minVal)
             densityScore   == Percent(spread, currentPrice)
             averageMA      == FDivInt(SumValues(allValues), Len(allValues))
             priceDeviation == Percent(FAbs(FSub(currentPrice, averageMA)), currentPrice)
             cls            == Classify(mas, currentPrice, maxVal, minVal,
                                        densityScore, priceDeviation)
             plan           == TradePlan(cls.signal, currentPrice, maxVal, minVal, atr)
         IN  [symbol         |-> symbol,
              interval       |-> interval,
              price          |-> currentPrice,
              mas            |-> mas,
              densityScore   |-> densityScore,
              priceDeviation |-> priceDeviation,
              atr            |-> atr,
              signal         |-> cls.signal,
              entryPrice     |-> currentPrice,
              stopLoss       |-> plan.stopLoss,
              takeProfit     |-> plan.takeProfit,
              isDense        |-> IsDense(densityScore, priceDeviation),
              reason         |-> <<interval, cls.reason>>]

\* analyzeInterval asking only for the candles the longest average needs.
analyzeIntervalShortHistory(symbol, interval, klines) ==
    IF Len(klines) < Period120 THEN Null
    ELSE EvaluateSetup(symbol, interval,
                       parseFloat(klines[Len(klines)].close),
                       calculateATR(klines, AtrPeriod),
                       [ma20   |-> LastOf(calculateSMA(klines, Period20)),
                        ma60   |-> LastOf(calculateSMA(klines, Period60)),
                        ma120  |-> LastOf(calculateSMA(klines, Period120)),
                        ema20  |-> LastOf(calculateEMA(klines, Period20)),
                        ema60  |-> LastOf(calculateEMA(klines, Period60)),
                        ema120 |-> LastOf(calculateEMA(klines, Period120))])

\* analyzeInterval, given the candles its fetchKlines call returned.
analyzeInterval(symbol, interval, klines) ==
    IF Len(klines) < MinKlines THEN Null
    ELSE LET currentPrice == parseFloat(klines[Len(klines)].close)
             atr          == calculateATR(klines, AtrPeriod)
             mas == [ma20   |-> LastOf(calculateSMA(klines, Period20)),
                     ma60   |-> LastOf(calculateSMA(klines, Period60)),
                     ma120  |-> LastOf(calculateSMA(klines, Period120)),
                     ema20  |-> LastOf(calculateEMA(klines, Period20)),
                     ema60  |-> LastOf(calculateEMA(klines, Period60)),
                     ema120 |-> LastOf(calculateEMA(klines, Period120))]
         IN  EvaluateSetup(symbol, interval, currentPrice, atr, mas)

\* ------------------------------------------------------- candle inputs

\* Candle histories the exchange may serve: len candles whose closes stay at level
\* a, then take level b for n2 candles and level c for the last n3 candles; every
\* candle has high = close + wick and low = close - wick.
LevelAt(n, len, a, b, c, n2, n3) ==
    IF n > len - n3 THEN c ELSE IF n > len - n3 - n2 THEN b ELSE a

RawRow(n, close, wick) ==
    ArrayElem(<<n, close, close + wick, close - wick, close, 1000, n>>)

RawCandles(len, a, b, c, n2, n3, wick) ==
    [n \in 1..len |-> RawRow(n, LevelAt(n, len, a, b, c, n2, n3), wick)]

\* How far past MinKlines the longest history goes.
ExtraLen == 1

\* The wick of the candles that have one.
Wick == 50

BaseLevel == 100000

MidLevels == {95000, 100000, 105000}

LastLevels == {95000, 98000, 100000, 100500, 105000}

HistoryLens == {0, AtrPeriod, Period120, MinKlines - 1, MinKlines, MinKlines + ExtraLen}

\* A history whose close at position bad is not a number.
WithGarbageClose(rows, bad) ==
    [n \in 1..Len(rows) |-> IF n = bad THEN [rows[n] EXCEPT !.cells[5] = Garbage] ELSE rows[n]]

\* A history whose close at position at is the string "Infinity".
WithInfiniteClose(rows, at) ==
    [n \in 1..Len(rows) |-> IF n = at THEN [rows[n] EXCEPT !.cells[5] = Infinity] ELSE rows[n]]

KlineInputs ==
    { mapData(RawCandles(len, BaseLevel, b, c, n2, n3, w)) :
        len \in HistoryLens, b \in MidLevels, c \in LastLevels,
        n2 \in {30, 70}, n3 \in {1, 5}, w \in {0, Wick} }
    \cup
    { mapData(WithGarbageClose(
                RawCandles(MinKlines, BaseLevel, BaseLevel, BaseLevel, 0, 1, 0), bad)) :
        bad \in {1, MinKlines} }
    \cup
    \* candles whose high and low fields are exchanged (high below low)
    { mapData(RawCandles(MinKlines, BaseLevel, b, c, 30, 1, 0 - Wick)) :
        b \in MidLevels, c \in LastLevels }
    \cup
    { mapData(WithInfiniteClose(
                RawCandles(MinKlines, BaseLevel, BaseLevel, BaseLevel, 0, 1, 0), at)) :
        at \in {1, MinKlines - Period60 - 1} }

\* -------------------------------------------------------- candle source

\* binanceUrl and dataApiUrl: the exchange endpoint and the query it is asked.
KlinesUrl(host, symbol, interval, limit) ==
    [host |-> host, symbol |-> symbol, interval |-> interval, limit |-> limit]

\* Marks a URL that carries no _t parameter.
NoToken == "none"

\* The five strategies in order of preference, for one call: the request each one
\* issues is [via, target, token, noCacheHeaders].
Strategies(symbol, interval, limit, ts) ==
    LET binanceUrl == KlinesUrl("api.binance.com", symbol, interval, limit)
        dataApiUrl == KlinesUrl("data-api.binance.vision", symbol, interval, limit)
    IN  << [name |-> "Binance Data API (Direct)", via |-> "direct",
            target |-> dataApiUrl, token |-> ts,
            useHeaders |-> TRUE, isJsonWrapper |-> FALSE],
           [name |-> "CodeTabs Proxy", via |-> "api.codetabs.com/v1/proxy",
            target |-> binanceUrl, token |-> NoToken,
            useHeaders |-> FALSE, isJsonWrapper |-> FALSE],
           [name |-> "CORS Proxy (corsproxy.io)", via |-> "corsproxy.io",
            target |-> binanceUrl, token |-> NoToken,
            useHeaders |-> FALSE, isJsonWrapper |-> FALSE],
           [name |-> "AllOrigins (Raw)", via |-> "api.allorigins.win/raw",
            target |-> binanceUrl, token |-> NoToken,
            useHeaders |-> FALSE, isJsonWrapper |-> FALSE],
           [name |-> "AllOrigins (JSON)", via |-> "api.allorigins.win/get",
            target |-> binanceUrl, token |-> NoToken,
            useHeaders |-> FALSE, isJsonWrapper |-> TRUE] >>

NumStrategies == Len(Strategies("", "", 0, 0))

\* The request a strategy sends: strategy.getUrl() and the options built for it.
RequestOf(strategy) ==
    [via |-> strategy.via, target |-> strategy.target, token |-> strategy.token,
     noCacheHeaders |-> strategy.useHeaders]

\* JSON values a response body may hold.  contents is the string field of the
\* AllOrigins wrapper: absent or empty (falsy), unparsable, or the text of value.
NoContents == [truthy |-> FALSE, parses |-> FALSE, t |-> "null", rows |-> << >>,
               code |-> FALSE, msg |-> FALSE]

JsonArray(rows) ==
    [t |-> "array", rows |-> rows, code |-> FALSE, msg |-> FALSE, contents |-> NoContents]

JsonNull ==
    [t |-> "null", rows |-> << >>, code |-> FALSE, msg |-> FALSE, contents |-> NoContents]

\* An object; code and msg say whether these fields are present and truthy.
JsonObject(code, msg) ==
    [t |-> "object", rows |-> << >>, code |-> code, msg |-> msg, contents |-> NoContents]

\* The wrapper object whose contents string is the text of the JSON value inner.
JsonWrapper(inner) ==
    [t |-> "object", rows |-> << >>, code |-> FALSE, msg |-> FALSE,
     contents |-> [truthy |-> TRUE, parses |-> TRUE, t |-> inner.t, rows |-> inner.rows,
                   code |-> inner.code, msg |-> inner.msg]]

\* The wrapper object whose contents string is not JSON.
JsonWrapperUnparsable ==
    [t |-> "object", rows |-> << >>, code |-> FALSE, msg |-> FALSE,
     contents |-> [NoContents EXCEPT !.truthy = TRUE]]

\* JSON.parse(data.contents) where it succeeds.
JSONparse(contents) ==
    [t |-> contents.t, rows |-> contents.rows, code |-> contents.code,
     msg |-> contents.msg, contents |-> NoContents]

\* What fetch and response.json() give for one request.
NetworkError == [net |-> "error", ok |-> FALSE, json |-> FALSE, data |-> JsonNull]

HttpError == [net |-> "ok", ok |-> FALSE, json |-> FALSE, data |-> JsonNull]

BodyNotJson == [net |-> "ok", ok |-> TRUE, json |-> FALSE, data |-> JsonNull]

Body(data) == [net |-> "ok", ok |-> TRUE, json |-> TRUE, data |-> data]

\* Number of rows in the arrays the endpoints serve in the candle-source runs.
PayloadRows == 2

\* The rows endpoint n serves: told apart by their open times and prices.
PayloadOf(n) ==
    [i \in 1..PayloadRows |->
        ArrayElem(<<1000 * n + i, 100000 + n, 100100 + n, 99900 + n, 100000 + n + i,
                    1000, 1000 * n + i>>)]

\* The kinds of response an endpoint may give.  Only the AllOrigins JSON endpoint
\* wraps its answer.
PlainKinds ==
    {"networkError", "httpError", "notJson", "null", "object", "apiError",
     "emptyArray", "nullRows", "numberRows", "validArray"}

WrapperKinds ==
    {"wrappedValid", "wrappedUnparsable", "wrappedApiError", "wrappedEmptyArray",
     "emptyContents"}

ResponseKinds(strategy) ==
    IF strategy.isJsonWrapper THEN PlainKinds \cup WrapperKinds ELSE PlainKinds

ResponseOf(n, kind) ==
    CASE kind = "networkError"      -> NetworkError
      [] kind = "httpError"         -> HttpError
      [] kind = "notJson"           -> BodyNotJson
      [] kind = "null"              -> Body(JsonNull)
      [] kind = "object"            -> Body(JsonObject(FALSE, FALSE))
      [] kind = "apiError"          -> Body(JsonObject(TRUE, TRUE))
      [] kind = "emptyArray"        -> Body(JsonArray(<< >>))
      [] kind = "nullRows"          -> Body(JsonArray([PayloadOf(n) EXCEPT ![1] = NullElem]))
      [] kind = "numberRows"        -> Body(JsonArray([i \in 1..PayloadRows |-> NumberElem]))
      [] kind = "validArray"        -> Body(JsonArray(PayloadOf(n)))
      [] kind = "wrappedValid"      -> Body(JsonWrapper(JsonArray(PayloadOf(n))))
      [] kind = "wrappedUnparsable" -> Body(JsonWrapperUnparsable)
      [] kind = "wrappedApiError"   -> Body(JsonWrapper(JsonObject(TRUE, TRUE)))
      [] kind = "wrappedEmptyArray" -> Body(JsonWrapper(JsonArray(<< >>)))
      [] kind = "emptyContents"     -> Body(JsonObject(FALSE, FALSE))

Returned(klines) == [kind |-> "return", klines |-> klines, error |-> ""]

Thrown(error) == [kind |-> "throw", klines |-> << >>, error |-> error]

\* ValidateData without the length test: any array is mapped and returned.
ValidateDataAnyArray(data) ==
    IF data.t = "array"
      THEN IF mapDataThrows(data.rows) THEN Thrown("TypeError")
           ELSE Returned(mapData(data.rows))
    ELSE IF data.t = "null" THEN Thrown("TypeError")
    ELSE IF data.code /\ data.msg THEN Thrown("API Error")
    ELSE Thrown("Invalid data format received")

\* The validation of the parsed data: the last if / else-if / else of the try block.
ValidateData(data) ==
    IF data.t = "array" /\ Len(data.rows) > 0
      THEN IF mapDataThrows(data.rows) THEN Thrown("TypeError")
           ELSE Returned(mapData(data.rows))
    ELSE IF data.t = "null" THEN Thrown("TypeError")
    ELSE IF data.code /\ data.msg THEN Thrown("API Error")
    ELSE Thrown("Invalid data format received")

\* The body of the try block for one strategy, given what its request met.
TryStrategy(strategy, response) ==
    IF response.net = "error" THEN Thrown("TypeError")
    ELSE IF ~response.ok THEN Thrown("HTTP error")
    ELSE IF ~response.json THEN Thrown("SyntaxError")
    ELSE LET data == response.data
         IN  IF strategy.isJsonWrapper /\ data.t = "null" THEN Thrown("TypeError")
             ELSE IF strategy.isJsonWrapper /\ data.contents.truthy
               THEN IF data.contents.parses
                      THEN ValidateData(JSONparse(data.contents))
                      ELSE Thrown("Failed to parse inner JSON from AllOrigins")
             ELSE ValidateData(data)

\* A catch clause that holds only the errors the block raises itself with
\* throw new Error(...), and lets a TypeError or SyntaxError of the runtime pass.
AttemptCatchingOwnErrors(strategy, response) ==
    LET out == TryStrategy(strategy, response)
    IN  IF out.kind = "throw"
          THEN IF out.error \in {"TypeError", "SyntaxError"}
                 THEN [out EXCEPT !.kind = "uncaught"]
                 ELSE [out EXCEPT !.kind = "caught"]
          ELSE out

\* try { ... } catch (error) { }: whether an outcome of the block leaves the loop
\* body as a return, as a swallowed error, or as an error that escapes.
Attempt(strategy, response) ==
    LET out == TryStrategy(strategy, response)
    IN  IF out.kind = "throw" THEN [out EXCEPT !.kind = "caught"] ELSE out

\* ---------------------------------------------------- timeframe arbiter

\* The priority logic of analyzeSymbol over its two results, 1h tried before 4h
\* in every tier.
PickSetupShorterFirst(setup4h, setup1h) ==
    IF setup1h # Null /\ setup1h.signal = "Watch" THEN setup1h
    ELSE IF setup4h # Null /\ setup4h.signal = "Watch" THEN setup4h
    ELSE IF setup1h # Null /\ setup1h.signal \in {"Long", "Short"} THEN setup1h
    ELSE IF setup4h # Null /\ setup4h.signal \in {"Long", "Short"} THEN setup4h
    ELSE IF setup1h # Null THEN setup1h
    ELSE IF setup4h # Null THEN setup4h
    ELSE Null

\* analyzeSymbol reduced to its fallback line: setup4h || setup1h || null.
PickSetupLongerOnly(setup4h, setup1h) ==
    IF setup4h # Null THEN setup4h
    ELSE IF setup1h # Null THEN setup1h
    ELSE Null

\* The priority logic of analyzeSymbol over its two results.
PickSetup(setup4h, setup1h) ==
    IF setup4h # Null /\ setup4h.signal = "Watch" THEN setup4h
    ELSE IF setup1h # Null /\ setup1h.signal = "Watch" THEN setup1h
    ELSE IF setup4h # Null /\ setup4h.signal \in {"Long", "Short"} THEN setup4h
    ELSE IF setup1h # Null /\ setup1h.signal \in {"Long", "Short"} THEN setup1h
    ELSE IF setup4h # Null THEN setup4h
    ELSE IF setup1h # Null THEN setup1h
    ELSE Null

\* Candle histories for the arbiter runs: none (every strategy failed), and one
\* history for each kind of signal.
ArbiterInputs ==
    { << >> }
    \cup
    { mapData(RawCandles(MinKlines, BaseLevel, lv[1], lv[2], 30, 1, 0)) :
        lv \in { <<100000, 100500>>, <<100000, 105000>>,
                 <<100000, 95000>>, <<95000, 105000>> } }

\* ---------------------------------------------------- batch orchestrator

TARGET_SYMBOLS ==
    <<"BTCUSDT", "ETHUSDT", "BNBUSDT", "SOLUSDT", "XRPUSDT",
      "DOGEUSDT", "ADAUSDT", "AVAXUSDT", "LINKUSDT", "DOTUSDT",
      "MATICUSDT", "LTCUSDT", "ATOMUSDT", "NEARUSDT", "APTUSDT">>

\* How many symbols of TARGET_SYMBOLS, from the first on, the runs scan.
NumSymbols == 2

\* How many calls of fetchAllData a run starts at most.
MaxPasses == 2

Symbols == SubSeq(TARGET_SYMBOLS, 1, NumSymbols)

Intervals == {"4h", "1h"}

\* const batchSize = 1
batchSize == 1

\* What the exchange serves a timeframe in the batch runs: nothing (every strategy
\* fails) or one history, a trending one for 4h and a tight one for 1h.
MarketHistories ==
    [outage |-> << >>,
     trend  |-> mapData(RawCandles(MinKlines, BaseLevel, 100000, 105000, 30, 1, 0)),
     tight  |-> mapData(RawCandles(MinKlines, BaseLevel, 100000, 100500, 30, 1, 0))]

MarketOf(interval) == IF interval = "4h" THEN {"outage", "trend"} ELSE {"outage", "tight"}

\* analyzeInterval(symbol, interval) for each symbol scanned and each history its
\* fetchKlines call may return.
AnalysisTable ==
    [n \in 1..NumSymbols |->
        [interval \in Intervals |->
            [h \in MarketOf(interval) |->
                analyzeInterval(TARGET_SYMBOLS[n], interval, MarketHistories[h])]]]

\* analyzeSymbol(TARGET_SYMBOLS[n]) when its 4h call is served h4 and its 1h call h1.
analyzeSymbol(n, h4, h1) ==
    PickSetup(AnalysisTable[n]["4h"][h4], AnalysisTable[n]["1h"][h1])

\* results.filter(s => s !== null)
FilterNonNull(results) == SelectSeq(results, LAMBDA r : r # Null)

\* The comparator with its two results exchanged.
CompareSetupsWatchLast(a, b) ==
    IF a.signal = "Watch" /\ b.signal # "Watch" THEN 1
    ELSE IF b.signal = "Watch" /\ a.signal # "Watch" THEN -1
    ELSE 0

\* The comparator of validSetups.sort.
CompareSetups(a, b) ==
    IF a.signal = "Watch" /\ b.signal # "Watch" THEN -1
    ELSE IF b.signal = "Watch" /\ a.signal # "Watch" THEN 1
    ELSE 0

\* validSetups.sort((a, b) => ...): Array.prototype.sort is a stable sort
\* (ECMAScript 2019), here by insertion: x goes in front of the first element the
\* comparator puts it before.
RECURSIVE InsertSorted(_, _)
InsertSorted(sorted, x) ==
    IF sorted = << >> THEN <<x>>
    ELSE IF CompareSetups(x, Head(sorted)) < 0 THEN <<x>> \o sorted
    ELSE <<Head(sorted)>> \o InsertSorted(Tail(sorted), x)

RECURSIVE SortSetups(_)
SortSetups(validSetups) ==
    IF validSetups = << >> THEN << >>
    ELSE InsertSorted(SortSetups(SubSeq(validSetups, 1, Len(validSetups) - 1)),
                      validSetups[Len(validSetups)])

\* A state update that appends to the list shown instead of replacing it.
setSetupsMerging(prev, validSetups) == prev \o validSetups

\* setSetups(validSetups): the new state value.
setSetups(prev, validSetups) == validSetups

\* The loop test guarding the pause, always false.
PauseNeededNever(i) == FALSE

\* if (i + batchSize < TARGET_SYMBOLS.length): a pause follows the batch at i.
PauseNeeded(i) == i + batchSize < NumSymbols

\* The progress figure taken from the loop index alone: the batches before this one.
ProgressBefore(i) == RoundDiv(i * 100, NumSymbols)

\* Math.round(((i + batchSize) / TARGET_SYMBOLS.length) * 100)
ProgressAfter(i) == RoundDiv((i + batchSize) * 100, NumSymbols)

\* TARGET_SYMBOLS.slice(i, i + batchSize), as 1-based positions in the list.
BatchAt(i) ==
    [j \in 1..(IF i + batchSize <= NumSymbols THEN batchSize ELSE NumSymbols - i) |-> i + j]

\* The fetch pipelines analyzeSymbol starts for the symbols of a batch.
PipelinesOf(batch) ==
    {<<batch[j], interval>> : j \in 1..Len(batch), interval \in Intervals}

\* The content test with || in place of &&: the spinner whenever loading is set
\* or the list is empty.
ContentSpinnerWhenEmpty(isLoading, shown) ==
    IF isLoading \/ Len(shown) = 0 THEN "spinner"
    ELSE IF Len(shown) = 0 THEN "noSignals"
    ELSE "cards"

\* What the content area renders: the spinner, the "no signals" box under an
\* empty grid, or the cards.  shown is filteredSetups, which is setups under the
\* initial filter 'ALL'.
Content(isLoading, shown) ==
    IF isLoading /\ Len(shown) = 0 THEN "spinner"
    ELSE IF Len(shown) = 0 THEN "noSignals"
    ELSE "cards"

\* ------------------------------------------- inputs of single calls

\* Indicator values for runs of the evaluation on given values: the lines at
\* three levels around 100.000, the two 120-period lines also at the values the
\* validity check is there for.
SetupLevels == {99000, 100000, 101000}

LongLineValues == SetupLevels \cup {0, NaN, Infinity}

MasInputs ==
    { [ma20 |-> a, ma60 |-> b, ma120 |-> c, ema20 |-> a, ema60 |-> b, ema120 |-> d] :
        a \in SetupLevels, b \in SetupLevels, c \in LongLineValues, d \in LongLineValues }

PriceInputs == {95000, 100500, 106000}

AtrInputs == {0, 250}

\* Longest candle array and largest period of the calculateSMA runs.
MaxSmaLen == 4

MaxSmaPeriod == 3

\* The close fields of the calculateSMA runs: two prices and a field that is no
\* numeric string.
SmaCloses == {1000, 2500, Garbage}

RECURSIVE SeqsUpTo(_, _)
SeqsUpTo(S, len) ==
    IF len = 0 THEN { << >> }
    ELSE LET shorter == SeqsUpTo(S, len - 1)
         IN  shorter \cup { Append(q, x) : q \in {r \in shorter : Len(r) = len - 1}, x \in S }

SmaInputs ==
    { mapData([n \in 1..Len(closes) |-> RawRow(n, closes[n], 0)]) :
        closes \in SeqsUpTo(SmaCloses, MaxSmaLen) }

\* -------------------------------------------------------------- state

\* App's filter and lastUpdated states are left out: fetchAllData never reads them
\* and no step modelled here depends on them.
VARIABLES
    evalKlines,   \* the candles one analyzeInterval call works on
    evalInterval, \* its interval argument
    evalResult,   \* [done |-> FALSE] while it runs, then its value: a setup or Null
    fk,           \* one fetchKlines call: its arguments, the strategy its loop is
                  \* at, the requests it has sent, the kinds of response they met
                  \* and how the call ended
    arb,          \* one analyzeSymbol call: the analyzeInterval calls still
                  \* pending, their results and the setup returned
    setups,       \* App state: the list shown
    loading,      \* App state
    progress,     \* App state
    mounted,      \* the effect has run: first pass started, interval timer set
    passes,       \* the calls of fetchAllData, by order of start: where each is
                  \* (pc), its loop index i, its results array, the fetch
                  \* pipelines it has in flight, the pauses it has taken and
                  \* the value it last passed to setProgress
    started,      \* how many calls of fetchAllData have started
    publishedBy,  \* the call whose setSetups came last (0: none yet)
    ev,           \* one run of analyzeInterval from its validity check on, on
                  \* given indicator values: the values and the result
    ind           \* one calculateSMA call: its arguments and its result

vars == <<evalKlines, evalInterval, evalResult, fk, arb,
          setups, loading, progress, mounted, passes, started, publishedBy,
          ev, ind>>

libVars == <<ev, ind>>

evalVars == <<evalKlines, evalInterval, evalResult>>

appVars == <<setups, loading, progress, mounted, passes, started, publishedBy>>

\* The default of fetchKlines' limit parameter.
DefaultLimit == 300

\* Values Date.now() may give a call.
Clock == {1700000000, 1700000001}

\* The variables of the calls that a specification does not run.
EvalIdle ==
    /\ evalKlines = << >>
    /\ evalInterval = "4h"
    /\ evalResult = [done |-> FALSE]

FetchIdle == fk = [pc |-> "idle"]

ArbiterIdle == arb = [pc |-> "idle"]

SetupIdle == ev = [pc |-> "idle"]

SmaIdle == ind = [pc |-> "idle"]

IdlePass ==
    [pc |-> "idle", i |-> 0, results |-> << >>, inflight |-> {}, pauses |-> 0,
     reported |-> 0]

\* The App component after its first render: the useState initial values.
AppInit ==
    /\ setups = << >>
    /\ loading = TRUE
    /\ progress = 0
    /\ mounted = FALSE
    /\ passes = [p \in 1..MaxPasses |-> IdlePass]
    /\ started = 0
    /\ publishedBy = 0

\* ---------------------------------- specification of the setup evaluator

InitEval ==
    /\ evalKlines \in KlineInputs
    /\ evalInterval \in Intervals
    /\ evalResult = [done |-> FALSE]
    /\ FetchIdle /\ ArbiterIdle /\ AppInit /\ SetupIdle /\ SmaIdle

AnalyzeIntervalReturns ==
    /\ ~evalResult.done
    /\ evalResult' = [done  |-> TRUE,
                      value |-> analyzeInterval(TARGET_SYMBOLS[1], evalInterval, evalKlines)]
    /\ UNCHANGED <<evalKlines, evalInterval, fk, arb, appVars, libVars>>

NextEval == AnalyzeIntervalReturns

SpecEval == InitEval /\ [][NextEval]_vars

\* ------------------------------------ specification of the candle source

FkStrategies == Strategies(fk.symbol, fk.interval, fk.limit, fk.ts)

\* fetchKlines(symbol, interval) has read the clock, built its strategies and sent
\* the first request.
InitFetch ==
    /\ EvalIdle /\ ArbiterIdle /\ AppInit /\ SetupIdle /\ SmaIdle
    /\ \E interval \in Intervals, ts \in Clock :
         fk = [pc        |-> "fetching",
               symbol    |-> TARGET_SYMBOLS[1],
               interval  |-> interval,
               limit     |-> DefaultLimit,
               ts        |-> ts,
               strategy  |-> 1,
               requests  |-> <<RequestOf(Strategies(TARGET_SYMBOLS[1], interval,
                                                    DefaultLimit, ts)[1])>>,
               responses |-> << >>,
               result    |-> << >>]

\* The pending request settles and the loop body handles what it met.
FetchOutcome(kind) ==
    Attempt(FkStrategies[fk.strategy], ResponseOf(fk.strategy, kind))

\* The strategy yields candles: fetchKlines returns them.
StrategySucceeds ==
    /\ fk.pc = "fetching"
    /\ \E kind \in ResponseKinds(FkStrategies[fk.strategy]) :
         LET out == FetchOutcome(kind)
         IN  /\ out.kind = "return"
             /\ fk' = [fk EXCEPT !.pc = "returned",
                                 !.responses = Append(@, kind),
                                 !.result = out.klines]
    /\ UNCHANGED <<evalVars, libVars, arb, appVars>>

\* The strategy fails and another one is left: its request is sent.  An error the
\* catch clause does not hold ends the call.
StrategyFails ==
    /\ fk.pc = "fetching"
    /\ fk.strategy < NumStrategies
    /\ \E kind \in ResponseKinds(FkStrategies[fk.strategy]) :
         LET out == FetchOutcome(kind)
         IN  /\ out.kind # "return"
             /\ fk' = IF out.kind = "caught"
                        THEN [fk EXCEPT !.strategy = @ + 1,
                                        !.responses = Append(@, kind),
                                        !.requests =
                                            Append(@, RequestOf(FkStrategies[fk.strategy + 1]))]
                        ELSE [fk EXCEPT !.pc = "threw", !.responses = Append(@, kind)]
    /\ UNCHANGED <<evalVars, libVars, arb, appVars>>

\* The last strategy fails: the error is logged and [] returned.
AllStrategiesFailed ==
    /\ fk.pc = "fetching"
    /\ fk.strategy = NumStrategies
    /\ \E kind \in ResponseKinds(FkStrategies[fk.strategy]) :
         LET out == FetchOutcome(kind)
         IN  /\ out.kind # "return"
             /\ fk' = IF out.kind = "caught"
                        THEN [fk EXCEPT !.pc = "returned",
                                        !.responses = Append(@, kind),
                                        !.result = << >>]
                        ELSE [fk EXCEPT !.pc = "threw", !.responses = Append(@, kind)]
    /\ UNCHANGED <<evalVars, libVars, arb, appVars>>

NextFetch == StrategySucceeds \/ StrategyFails \/ AllStrategiesFailed

SpecFetch == InitFetch /\ [][NextFetch]_vars

\* --------------------------------- specification of the timeframe arbiter

\* analyzeSymbol(symbol) has started its two analyzeInterval calls.
InitArbiter ==
    /\ EvalIdle /\ FetchIdle /\ AppInit /\ SetupIdle /\ SmaIdle
    /\ \E n \in 1..NumSymbols :
         arb = [pc      |-> "awaiting",
                symbol  |-> TARGET_SYMBOLS[n],
                pending |-> Intervals,
                setup4h |-> Null,
                setup1h |-> Null,
                result  |-> Null]

\* One analyzeInterval call resolves: its fetchKlines call returned klines.
IntervalResolves ==
    /\ arb.pc = "awaiting"
    /\ \E interval \in arb.pending, klines \in ArbiterInputs :
         LET setup == analyzeInterval(arb.symbol, interval, klines)
         IN  arb' = IF interval = "4h"
                      THEN [arb EXCEPT !.pending = @ \ {interval}, !.setup4h = setup]
                      ELSE [arb EXCEPT !.pending = @ \ {interval}, !.setup1h = setup]
    /\ UNCHANGED <<evalVars, libVars, fk, appVars>>

\* Promise.all resolves and the priority logic picks the setup to return.
AnalyzeSymbolReturns ==
    /\ arb.pc = "awaiting"
    /\ arb.pending = {}
    /\ arb' = [arb EXCEPT !.pc = "returned",
                          !.result = PickSetup(arb.setup4h, arb.setup1h)]
    /\ UNCHANGED <<evalVars, libVars, fk, appVars>>

NextArbiter == IntervalResolves \/ AnalyzeSymbolReturns

SpecArbiter == InitArbiter /\ [][NextArbiter]_vars

\* ------------------- specification of the evaluation on given values

\* analyzeInterval has computed the price, the ATR and the six lines.
InitSetup ==
    /\ EvalIdle /\ FetchIdle /\ ArbiterIdle /\ AppInit /\ SmaIdle
    /\ \E interval \in Intervals, price \in PriceInputs, atr \in AtrInputs, mas \in MasInputs :
         ev = [pc |-> "evaluating", interval |-> interval, price |-> price,
               atr |-> atr, mas |-> mas, result |-> Null]

\* The validity check, the classification and the plan: analyzeInterval returns.
EvaluateSetupReturns ==
    /\ ev.pc = "evaluating"
    /\ ev' = [ev EXCEPT !.pc = "returned",
                        !.result = EvaluateSetup(TARGET_SYMBOLS[1], ev.interval,
                                                 ev.price, ev.atr, ev.mas)]
    /\ UNCHANGED <<evalVars, fk, arb, appVars, ind>>

NextSetup == EvaluateSetupReturns

SpecSetup == InitSetup /\ [][NextSetup]_vars

\* ------------------------------------------ specification of calculateSMA

InitSma ==
    /\ EvalIdle /\ FetchIdle /\ ArbiterIdle /\ AppInit /\ SetupIdle
    /\ \E klines \in SmaInputs, period \in 1..MaxSmaPeriod :
         ind = [pc |-> "called", klines |-> klines, period |-> period, result |-> << >>]

CalculateSMAReturns ==
    /\ ind.pc = "called"
    /\ ind' = [ind EXCEPT !.pc = "returned",
                          !.result = calculateSMA(ind.klines, ind.period)]
    /\ UNCHANGED <<evalVars, fk, arb, appVars, ev>>

NextSma == CalculateSMAReturns

SpecSma == InitSma /\ [][NextSma]_vars

\* -------------------------------------- specification of the batch pass

Init == EvalIdle /\ FetchIdle /\ ArbiterIdle /\ AppInit /\ SetupIdle /\ SmaIdle

\* fetchAllData up to its first await: the flags are set and analyzeSymbol is
\* called for the first batch.
StartedPass ==
    [pc |-> "analyzing", i |-> 0, results |-> << >>,
     inflight |-> PipelinesOf(BatchAt(0)), pauses |-> 0, reported |-> 0]

BeginPass ==
    /\ started < MaxPasses
    /\ started' = started + 1
    /\ loading' = TRUE
    /\ progress' = 0
    /\ passes' = [passes EXCEPT ![started + 1] = StartedPass]
    /\ UNCHANGED <<setups, publishedBy>>

\* useEffect: fetchAllData() and setInterval(fetchAllData, 300000).
Mount ==
    /\ ~mounted
    /\ mounted' = TRUE
    /\ BeginPass
    /\ UNCHANGED <<evalVars, libVars, fk, arb>>

\* The interval timer fires and calls fetchAllData.
TimerFires ==
    /\ mounted
    /\ BeginPass
    /\ UNCHANGED <<evalVars, libVars, fk, arb, mounted>>

\* A click on the refresh button, which is disabled while loading is set.
ClickRefresh ==
    /\ mounted
    /\ ~loading
    /\ BeginPass
    /\ UNCHANGED <<evalVars, libVars, fk, arb, mounted>>

\* The results of the batch of pass p, one analyzeSymbol result per symbol, for
\* a choice of what the exchange served each symbol and timeframe.
BatchResults(batch, served) ==
    [j \in 1..Len(batch) |-> analyzeSymbol(batch[j], served[j][1], served[j][2])]

\* Promise.all over the batch resolves in pass p; the loop body goes on to the
\* pause, or the loop ends and the pass publishes its list.
BatchResolves(p) ==
    /\ passes[p].pc = "analyzing"
    /\ LET i     == passes[p].i
           batch == BatchAt(i)
       IN  \E served \in [1..Len(batch) -> MarketOf("4h") \X MarketOf("1h")] :
             LET results == passes[p].results \o BatchResults(batch, served)
             IN  /\ progress' = ProgressAfter(i)
                 /\ IF PauseNeeded(i)
                      THEN /\ passes' = [passes EXCEPT ![p].pc = "pausing",
                                                       ![p].results = results,
                                                       ![p].inflight = {},
                                                       ![p].pauses = @ + 1,
                                                       ![p].reported = ProgressAfter(i)]
                           /\ UNCHANGED <<setups, loading, publishedBy>>
                      ELSE IF i + batchSize < NumSymbols
                        THEN /\ passes' = [passes EXCEPT
                                              ![p].i = i + batchSize,
                                              ![p].results = results,
                                              ![p].inflight = PipelinesOf(BatchAt(i + batchSize)),
                                              ![p].reported = ProgressAfter(i)]
                             /\ UNCHANGED <<setups, loading, publishedBy>>
                        ELSE /\ passes' = [passes EXCEPT ![p].pc = "done",
                                                         ![p].results = results,
                                                         ![p].inflight = {},
                                                         ![p].reported = ProgressAfter(i)]
                             /\ setups' = setSetups(setups, SortSetups(FilterNonNull(results)))
                             /\ loading' = FALSE
                             /\ publishedBy' = p
    /\ UNCHANGED <<evalVars, libVars, fk, arb, mounted, started>>

\* The 1.5 s timer of the pause fires in pass p: the loop steps to the next batch
\* and calls analyzeSymbol for it.
PauseElapses(p) ==
    /\ passes[p].pc = "pausing"
    /\ passes' = [passes EXCEPT
                     ![p].pc = "analyzing",
                     ![p].i = @ + batchSize,
                     ![p].inflight = PipelinesOf(BatchAt(passes[p].i + batchSize))]
    /\ UNCHANGED <<evalVars, libVars, fk, arb, setups, loading, progress, mounted, started,
                   publishedBy>>

Next ==
    \/ Mount
    \/ TimerFires
    \/ ClickRefresh
    \/ \E p \in 1..MaxPasses : BatchResolves(p)
    \/ \E p \in 1..MaxPasses : PauseElapses(p)

Spec == Init /\ [][Next]_vars

\* Every pending Promise.all of a pass settles (fetchKlines ends each of its
\* requests by a return or a caught error) and every pause timer fires.
PassFairness ==
    \A p \in 1..MaxPasses :
        WF_vars(BatchResolves(p)) /\ WF_vars(PauseElapses(p))

SpecLive == Spec /\ PassFairness

\* ============================================================== claims

Signals == {"Long", "Short", "Wait", "Watch"}

\* The setup the finished analyzeInterval call emitted, if it emitted one.
EvalEmitted == evalResult.done /\ evalResult.value # Null

SixValues(s) ==
    {s.mas.ma20, s.mas.ma60, s.mas.ma120, s.mas.ema20, s.mas.ema60, s.mas.ema120}

\* C1: every emitted setup has its stop-loss and take-profit on the correct side
\* of the entry price: stopLoss < price < takeProfit for Long and Watch,
\* takeProfit < price < stopLoss for Short and Wait.
C1_PlanOnCorrectSide ==
    EvalEmitted =>
        LET s == evalResult.value
        IN  /\ s.signal \in {"Long", "Watch"} =>
                s.stopLoss < s.price /\ s.price < s.takeProfit
            /\ s.signal \in {"Short", "Wait"} =>
                s.takeProfit < s.price /\ s.price < s.stopLoss

\* C2: the signal of every emitted setup is the one the priority order gives
\* (Watch if dense, else Long on bullish alignment with the price above all six
\* lines, else Short on the mirror condition, else Wait), and isDense is true
\* exactly when densityScore < 2.0 and priceDeviation < 3.0.
C2_SignalByPriority ==
    EvalEmitted =>
        LET s       == evalResult.value
            dense   == s.densityScore < 2 * ScoreScale /\ s.priceDeviation < 3 * ScoreScale
            bullish == /\ s.mas.ma20 > s.mas.ma60 /\ s.mas.ma60 > s.mas.ma120
                       /\ \A v \in SixValues(s) : s.price > v
            bearish == /\ s.mas.ma20 < s.mas.ma60 /\ s.mas.ma60 < s.mas.ma120
                       /\ \A v \in SixValues(s) : s.price < v
        IN  /\ s.signal \in Signals
            /\ s.isDense = dense
            /\ s.densityScore >= 0 /\ s.priceDeviation >= 0
            /\ s.signal = (IF dense THEN "Watch"
                           ELSE IF bullish THEN "Long"
                           ELSE IF bearish THEN "Short"
                           ELSE "Wait")

\* C2's case: a dense setup that also meets the Long condition is a Watch setup.
C2_Witness ==
    /\ EvalEmitted
    /\ evalResult.value.isDense
    /\ evalResult.value.signal = "Watch"
    /\ evalResult.value.mas.ma20 > evalResult.value.mas.ma60
    /\ evalResult.value.mas.ma60 > evalResult.value.mas.ma120
    /\ \A v \in SixValues(evalResult.value) : evalResult.value.price > v

\* C7: a candle sequence shorter than 150 entries, the empty one included, gives
\* no setup.
C7_ShortHistoryGivesNone ==
    (evalResult.done /\ Len(evalKlines) < 150) => evalResult.value = Null

\* C7's case: 149 candles, one short of the minimum, were analysed.
C7_Witness ==
    evalResult.done /\ Len(evalKlines) = 149 /\ evalResult.value = Null

\* The signal of an interval result, "none" where there is no setup.
SignalOf(setup) == IF setup = Null THEN "none" ELSE setup.signal

Directional == {"Long", "Short"}

\* C3: the arbiter ranks the two results by kind whichever timeframe produced
\* them: if either is Watch the returned setup is a Watch setup; otherwise, if
\* either is Long or Short, the returned setup is Long or Short; of one Watch
\* and one Long result the Watch one is returned.
C3_RanksByKind ==
    arb.pc = "returned" =>
        LET k4 == SignalOf(arb.setup4h)
            k1 == SignalOf(arb.setup1h)
        IN  /\ "Watch" \in {k4, k1} => SignalOf(arb.result) = "Watch"
            /\ ("Watch" \notin {k4, k1} /\ {k4, k1} \cap Directional # {}) =>
                   SignalOf(arb.result) \in Directional
            /\ (k4 = "Watch" /\ k1 = "Long") => arb.result = arb.setup4h
            /\ (k4 = "Long" /\ k1 = "Watch") => arb.result = arb.setup1h

\* C3's case: 4h gave a Long setup and 1h a Watch setup, and the 1h one came back.
C3_Witness ==
    /\ arb.pc = "returned"
    /\ SignalOf(arb.setup4h) = "Long"
    /\ SignalOf(arb.setup1h) = "Watch"
    /\ arb.result = arb.setup1h
    /\ arb.result.interval = "1h"

\* The rank of a kind of result in the arbiter's order.
Rank(setup) ==
    CASE SignalOf(setup) = "Watch"      -> 3
      [] SignalOf(setup) \in Directional -> 2
      [] SignalOf(setup) = "Wait"       -> 1
      [] OTHER                          -> 0

\* C4: the arbiter returns the 1h result only when it outranks the 4h result (or
\* the 4h result is none) and the 4h result otherwise, so ties go to 4h; it
\* returns none exactly when both results are none; and what it returns is
\* always one of the two results, unmodified.
C4_TiesToLongerTimeframe ==
    arb.pc = "returned" =>
        /\ arb.result = (IF Rank(arb.setup1h) > Rank(arb.setup4h)
                           THEN arb.setup1h ELSE arb.setup4h)
        /\ (arb.result = Null) <=> (arb.setup4h = Null /\ arb.setup1h = Null)
        /\ arb.result \in {arb.setup4h, arb.setup1h}
        /\ arb.result # Null => arb.result.symbol = arb.symbol

\* C4's case: both timeframes gave a directional setup, one Long and one Short,
\* and the 4h one came back.
C4_Witness ==
    /\ arb.pc = "returned"
    /\ SignalOf(arb.setup4h) = "Long"
    /\ SignalOf(arb.setup1h) = "Short"
    /\ arb.result = arb.setup4h
    /\ arb.result.interval = "4h"

\* The kinds of response that hold an array with at least one element that maps.
ValidKinds(strategy) ==
    {"validArray", "numberRows"}
    \cup (IF strategy.isJsonWrapper THEN {"wrappedValid"} ELSE {})

\* The rows of the array a response of a valid kind holds.
RowsOf(n, kind) ==
    IF kind = "numberRows" THEN [i \in 1..PayloadRows |-> NumberElem] ELSE PayloadOf(n)

\* The strategies whose response was met and was not a valid array.
FailedStrategies ==
    {i \in 1..Len(fk.responses) : fk.responses[i] \notin ValidKinds(FkStrategies[i])}

\* C5: in one call the strategies are requested in their fixed order, each at
\* most once; a request is sent only after all earlier ones failed; the call
\* returns at the first valid non-empty array, with that strategy's mapped
\* candles, and at no failure before the last strategy.
C5_FirstValidStrategyWins ==
    fk.pc # "idle" =>
        LET n == Len(fk.responses)
        IN  /\ Len(fk.requests) = n + (IF fk.pc = "fetching" THEN 1 ELSE 0)
            /\ Len(fk.requests) <= NumStrategies
            /\ \A i \in 1..Len(fk.requests) : fk.requests[i] = RequestOf(FkStrategies[i])
            /\ \A i, j \in 1..Len(fk.requests) : i # j => fk.requests[i] # fk.requests[j]
            /\ \A i \in 1..(n - 1) : i \in FailedStrategies
            /\ fk.pc = "fetching" => FailedStrategies = 1..n
            /\ (fk.pc = "returned" /\ n \notin FailedStrategies) =>
                   fk.result = mapData(RowsOf(n, fk.responses[n]))
            /\ (fk.pc = "returned" /\ n \in FailedStrategies) => n = NumStrategies

\* C5's case: the direct endpoint met a network error, the first proxy served a
\* valid array, and the call returned the proxy's candles.
C5_Witness ==
    /\ fk.pc = "returned"
    /\ fk.responses = <<"networkError", "validArray">>
    /\ Len(fk.requests) = 2
    /\ fk.result = mapData(PayloadOf(2))
    /\ fk.result # mapData(PayloadOf(1))

\* C6: the call never ends with an error; every failure of a strategy but the
\* last is followed by the request of the next strategy; and when all five fail
\* the call returns the empty sequence.
C6_NeverRaises ==
    /\ fk.pc # "threw"
    /\ \A i \in FailedStrategies : i < NumStrategies => Len(fk.requests) > i
    /\ (fk.pc = "returned" /\ FailedStrategies = 1..Len(fk.responses)) =>
           /\ Len(fk.responses) = NumStrategies
           /\ fk.result = << >>

\* C6's case: five failures of five kinds, and an empty sequence returned.
C6_Witness ==
    /\ fk.pc = "returned"
    /\ fk.responses = <<"networkError", "httpError", "nullRows", "apiError",
                        "wrappedUnparsable">>
    /\ fk.result = << >>

\* The instruments that have a fetch pipeline of a pass in flight.
InstrumentsInFlight(pass) == {x[1] : x \in pass.inflight}

\* C8: in a pass at most one instrument has fetch pipelines in flight; while
\* instrument k+1 is evaluated the results of instruments 1..k are in and k
\* pauses have been taken; nothing is in flight during a pause or after the pass.
C8_OneInstrumentAtATime ==
    \A p \in 1..MaxPasses :
        LET pass == passes[p]
        IN  /\ Cardinality(InstrumentsInFlight(pass)) <= 1
            /\ pass.pc = "analyzing" =>
                   /\ InstrumentsInFlight(pass) = {pass.i + 1}
                   /\ Len(pass.results) = pass.i
                   /\ pass.pauses = pass.i
            /\ pass.pc = "pausing" =>
                   /\ pass.inflight = {}
                   /\ Len(pass.results) = pass.i + 1
                   /\ pass.pauses = pass.i + 1
            /\ pass.pc = "done" =>
                   /\ pass.inflight = {}
                   /\ Len(pass.results) = NumSymbols
                   /\ pass.pauses = NumSymbols - 1

\* C8's case: the first pass evaluates the second instrument, after the first
\* one's result and one pause.
C8_Witness ==
    /\ passes[1].pc = "analyzing"
    /\ passes[1].i = 1
    /\ passes[1].pauses = 1
    /\ Len(passes[1].results) = 1
    /\ passes[1].inflight = {<<2, "4h">>, <<2, "1h">>}

\* The place of a symbol in the instrument list.
PositionOf(symbol) == CHOOSE k \in 1..Len(TARGET_SYMBOLS) : TARGET_SYMBOLS[k] = symbol

ResultList(results) ==
    LET valid == SelectSeq(results, LAMBDA r : r # Null)
    IN  SelectSeq(valid, LAMBDA r : r.signal = "Watch")
        \o SelectSeq(valid, LAMBDA r : r.signal # "Watch")

\* C10: whenever the published list changes, a pass has just finished and the
\* list is the result list of that pass alone, whatever was published before
\* and whatever other passes are under way.
C10_PassReplacesList ==
    [][setups' # setups =>
          \E p \in 1..MaxPasses :
              /\ passes[p].pc = "analyzing"
              /\ passes'[p].pc = "done"
              /\ publishedBy' = p
              /\ setups' = ResultList(passes'[p].results)]_vars

\* C10's case: the second pass started after the first, finished before it and
\* published a list; the first pass then published a different list of its own.
C10_Witness ==
    /\ passes[1].pc = "done"
    /\ passes[2].pc = "done"
    /\ publishedBy = 1
    /\ ResultList(passes[2].results) # << >>
    /\ ResultList(passes[2].results) # ResultList(passes[1].results)
    /\ setups = ResultList(passes[1].results)
    /\ setups # << >>

\* C11: every request a call issues carries the call's cache-busting token: a
\* call made at another time issues a different request for every strategy, so
\* no response cached for one call can answer the other.
C11_EveryRequestCarriesToken ==
    fk.pc # "idle" =>
        \A i \in 1..Len(fk.requests) :
            \A ts \in Clock \ {fk.ts} :
                fk.requests[i] # RequestOf(Strategies(fk.symbol, fk.interval, fk.limit, ts)[i])

\* A pass all of whose arbiter calls gave none: every fetch strategy failed
\* for every instrument and timeframe.
FullyFailed(pass) == \A k \in 1..Len(pass.results) : pass.results[k] = Null

\* C12: a pass that has started runs to its end; and when a pass ends with all
\* its fetches failed, the list is empty, loading is cleared, and what the
\* content area renders is not what it renders while loading with an empty list.
C12_FailedCycleEndsEmpty ==
    /\ [][\A p \in 1..MaxPasses :
             (/\ passes[p].pc = "analyzing"
              /\ passes'[p].pc = "done"
              /\ FullyFailed(passes'[p])) =>
                 /\ setups' = << >>
                 /\ ~loading'
                 /\ Content(loading', setups') # Content(TRUE, << >>)]_vars
    /\ \A p \in 1..MaxPasses :
           (passes[p].pc = "analyzing") ~> (passes[p].pc = "done")

\* C12's case: the list held setups of an earlier pass, and the pass that
\* published last met a total outage and left the list empty.
C12_Witness ==
    /\ publishedBy = 2
    /\ passes[2].pc = "done"
    /\ FullyFailed(passes[2])
    /\ passes[1].pc = "done"
    /\ ~FullyFailed(passes[1])
    /\ setups = << >>
    /\ ~loading
    /\ Content(loading, setups) = "noSignals"

\* A value the validity check of the 120-period averages is meant to reject.
ZeroOrNonFinite(x) == x = 0 \/ IsNaN(x) \/ IsInfinite(x)

\* C14: no setup is emitted whose ma120 or ema120 is zero or not finite.
C14_NoSetupOnBadLongAverage ==
    EvalEmitted =>
        /\ ~ZeroOrNonFinite(evalResult.value.mas.ma120)
        /\ ~ZeroOrNonFinite(evalResult.value.mas.ema120)

\* The scenario of C13: the evaluation has returned for six lines at 100.00 and
\* a price of 100.50.
FlatScenario ==
    /\ ev.pc = "returned"
    /\ ev.price = 100500
    /\ \A v \in {ev.mas.ma20, ev.mas.ma60, ev.mas.ma120,
                 ev.mas.ema20, ev.mas.ema60, ev.mas.ema120} : v = 100000

\* C13 as stated: in the scenario the setup has densityScore 0, priceDeviation
\* 0.5, isDense true and signal Watch.
C13_ScenarioAsStated ==
    FlatScenario =>
        /\ ev.result # Null
        /\ ev.result.densityScore = 0
        /\ 2 * ev.result.priceDeviation = ScoreScale
        /\ ev.result.isDense
        /\ ev.result.signal = "Watch"

\* C13 amended: in the scenario the setup has densityScore 0, priceDeviation
\* 0.5 / 100.5 * 100 (0.4975 to four places, the nearest score unit to 100/201
\* percent, below 0.5), isDense true and signal Watch.
C13_ScenarioDeviationOverPrice ==
    FlatScenario =>
        /\ ev.result # Null
        /\ ev.result.densityScore = 0
        /\ 2 * ev.result.priceDeviation < ScoreScale
        /\ 201 * ev.result.priceDeviation - 100 * ScoreScale \in -100..100
        /\ ev.result.isDense
        /\ ev.result.signal = "Watch"

\* C13's case: the scenario was evaluated and gave a dense Watch setup.
C13_Witness ==
    /\ FlatScenario
    /\ ev.result # Null
    /\ ev.result.signal = "Watch"
    /\ ev.result.densityScore = 0
    /\ ev.result.priceDeviation > 0

\* The setup a run of the evaluation on given values emitted, if it emitted one
\* whose six lines are finite.
SetupEmitted ==
    /\ ev.pc = "returned"
    /\ ev.result # Null
    /\ \A v \in SixValues(ev.result) : ~IsInfinite(v)

\* The lowest and the highest of the six lines of a setup.
LowestLine(s) == CHOOSE v \in SixValues(s) : \A w \in SixValues(s) : v <= w

HighestLine(s) == CHOOSE v \in SixValues(s) : \A w \in SixValues(s) : v >= w

\* C15: a Long or Watch setup has stopLoss = min(six lines) - 2 * ATR and
\* takeProfit = price + 2 * (price - stopLoss); a Short or Wait setup has
\* stopLoss = max(six lines) + 2 * ATR and takeProfit = price - 2 * (stopLoss -
\* price); so takeProfit - price = 2 * (price - stopLoss) in every setup, and
\* entryPrice = price.
C15_PlanFormula ==
    SetupEmitted =>
        LET s == ev.result
        IN  /\ s.signal \in {"Long", "Watch"} =>
                /\ s.stopLoss = LowestLine(s) - 2 * s.atr
                /\ s.takeProfit = s.price + 2 * (s.price - s.stopLoss)
            /\ s.signal \in {"Short", "Wait"} =>
                /\ s.stopLoss = HighestLine(s) + 2 * s.atr
                /\ s.takeProfit = s.price - 2 * (s.stopLoss - s.price)
            /\ s.takeProfit - s.price = 2 * (s.price - s.stopLoss)
            /\ s.entryPrice = s.price
            /\ s.price = ev.price /\ s.atr = ev.atr

\* C15's case: a Wait setup with a positive ATR and lines at different levels,
\* planned from the highest line.
C15_Witness ==
    /\ SetupEmitted
    /\ ev.result.signal = "Wait"
    /\ ev.atr > 0
    /\ LowestLine(ev.result) < HighestLine(ev.result)
    /\ ev.result.stopLoss = HighestLine(ev.result) + 2 * ev.atr

\* Every price field of every candle is a positive finite number.
PositivePrices(klines) ==
    \A n \in 1..Len(klines) :
        \A x \in {klines[n].open, klines[n].high, klines[n].low, klines[n].close} :
            x > 0 /\ x < Infinity

\* C19: on candles with positive prices the ATR of an emitted setup is not
\* negative, a Long setup has stopLoss <= min(six lines) <= max(six lines) <
\* price < takeProfit, and a Short setup has takeProfit < price < min(six lines)
\* <= max(six lines) <= stopLoss.
C19_DirectionalPlanProtective ==
    (EvalEmitted /\ PositivePrices(evalKlines)) =>
        LET s  == evalResult.value
            lo == LowestLine(s)
            hi == HighestLine(s)
        IN  /\ s.atr >= 0
            /\ s.signal = "Long" =>
                /\ s.stopLoss <= lo /\ lo <= hi /\ hi < s.price
                /\ s.price < s.takeProfit
            /\ s.signal = "Short" =>
                /\ s.takeProfit < s.price
                /\ s.price < lo /\ lo <= hi /\ hi <= s.stopLoss

\* C19's case: a Short setup on candles with wicks, its stop above the highest
\* line by the ATR buffer.
C19_Witness ==
    /\ EvalEmitted
    /\ PositivePrices(evalKlines)
    /\ evalResult.value.signal = "Short"
    /\ evalResult.value.atr > 0
    /\ evalResult.value.stopLoss > HighestLine(evalResult.value)
    /\ evalResult.value.takeProfit < evalResult.value.price

\* C16: a pass sets progress to 0 when it starts; each time one more of its
\* instruments completes, the k-th say, it sets progress to 100 * k / N rounded to
\* the nearest integer, a value not below the one it set before and not above
\* 100; and the value it sets when it finishes is 100.
C16_ProgressPerInstrument ==
    [][\A p \in 1..MaxPasses :
          LET old == passes[p]
              new == passes'[p]
              k   == Len(new.results)
          IN  /\ (old.pc = "idle" /\ new.pc # "idle") =>
                     progress' = 0 /\ new.reported = 0
              /\ (old.pc # "idle" /\ new.results # old.results) =>
                     /\ k = Len(old.results) + 1
                     /\ progress' = new.reported
                     /\ progress' * NumSymbols - 100 * k
                            \in (0 - NumSymbols \div 2)..(NumSymbols \div 2)
                     /\ new.reported >= old.reported
                     /\ progress' <= 100
              /\ (old.pc # "done" /\ new.pc = "done") => progress' = 100
              /\ (old.pc # "idle" /\ new.results = old.results) =>
                     new.reported = old.reported]_vars

\* C16's case: the first pass has completed one instrument of several and shows
\* its share.
C16_Witness ==
    /\ passes[1].pc = "pausing"
    /\ Len(passes[1].results) = 1
    /\ progress = passes[1].reported
    /\ progress > 0 /\ progress < 100
    /\ progress * NumSymbols - 100 \in (0 - NumSymbols \div 2)..(NumSymbols \div 2)

\* The passes in flight.
ActivePasses == {p \in 1..MaxPasses : passes[p].pc \in {"analyzing", "pausing"}}

\* C18: at most one pass is in flight at any time, and loading is set for as long
\* as a pass is in flight.
C18_AtMostOneActivePass ==
    /\ Cardinality(ActivePasses) <= 1
    /\ ActivePasses # {} => loading

\* The closes of the period candles ending at candle n (1-based).
WindowCloses(klines, n, period) == {klines[j].close : j \in (n - period + 1)..n}

\* Their total, when all of them are numbers.
RECURSIVE WindowTotal(_, _, _)
WindowTotal(klines, n, period) ==
    IF period = 0 THEN 0 ELSE klines[n].close + WindowTotal(klines, n - 1, period - 1)

\* C17: calculateSMA returns the empty sequence when there are fewer candles
\* than the period; otherwise a sequence as long as the candles, 0 at every index
\* i < period - 1, and at every index i >= period - 1 the mean of the closes of
\* the period candles ending at i (to the nearest unit; NaN when one of these
\* closes is no number).  Index i of the code is position i + 1 here.
C17_SmaIsTrailingMean ==
    ind.pc = "returned" =>
        LET klines == ind.klines
            period == ind.period
            sma    == ind.result
        IN  /\ Len(klines) < period => sma = << >>
            /\ Len(klines) >= period =>
                /\ Len(sma) = Len(klines)
                /\ \A n \in 1..Len(klines) :
                       /\ n < period => sma[n] = 0
                       /\ (n >= period /\ Garbage \in WindowCloses(klines, n, period)) =>
                              IsNaN(sma[n])
                       /\ (n >= period /\ Garbage \notin WindowCloses(klines, n, period)) =>
                              sma[n] * period - WindowTotal(klines, n, period)
                                  \in (0 - period \div 2)..(period \div 2)

\* C17's case: four candles and period 3: two placeholders, then two means over
\* different windows, the last one over the last three closes.
C17_Witness ==
    /\ ind.pc = "returned"
    /\ Len(ind.klines) = 4
    /\ ind.period = 3
    /\ ind.result[1] = 0 /\ ind.result[2] = 0
    /\ ~IsNaN(ind.result[3]) /\ ~IsNaN(ind.result[4])
    /\ ind.result[3] # ind.result[4]
    /\ ind.result[4] * 3 = WindowTotal(ind.klines, 4, 3)

====
